---------------------------- MODULE Spec2Model ----------------------------
(***************************************************************************)
(* Traefik provider for Proxmox: the poll loop (Provide, loadConfiguration,*)
(* updateConfiguration, Stop), the cluster scan (getServiceMap,            *)
(* scanServices, getIPsOfService) and the label-to-configuration engine    *)
(* (generateConfiguration, build{HTTP,TCP,UDP}Configuration,               *)
(* buildServerURL, getServiceIP, getDefinedElements).                      *)
(*                                                                         *)
(* Go values are represented as follows.  A string is a string, "" the     *)
(* zero value.  A pointer that may be nil (Priority, PassHostHeader,       *)
(* LoadBalancer) is the                                                    *)
(* empty sequence << >> when nil and the one-element sequence <<v>> when   *)
(* set.  A Go map is a function whose DOMAIN is its key set.  A label key   *)
(* "traefik.http.routers.r1.rule" is the sequence of its "."-separated      *)
(* segments <<"traefik","http","routers","r1","rule">>.  In a rule the      *)
(* quote ' stands for the backquote of the Go source.                      *)
(***************************************************************************)
EXTENDS Integers, Sequences, FiniteSets, TLC

VARIABLES
    pc,             \* position of the background goroutine started by Provide
    cancelSet,      \* p.cancel # nil
    ctxDone,        \* the context created by Provide has been cancelled
    nodesTodo,      \* getServiceMap: nodes still to scan in this cycle
    servicesMap,    \* getServiceMap / generateConfiguration: node -> services
    genQueue,       \* generateConfiguration: (node, service) pairs still to process
    config,         \* generateConfiguration: the aggregate configuration being built
    cluster,        \* history: what the cluster answered in this cycle, per node
    sent,           \* history: payloads sent on cfgChan in the current cycle
    sentAfterCancel,\* history: a payload was sent after the context was cancelled
    outcome,        \* history: how the last finished cycle ended ("none","ok","err")
    last,           \* history: the last iteration of generateConfiguration's inner loop
    call,           \* resolver specification: the arguments of buildServerURL
    ret             \* resolver specification: the value buildServerURL returned

vars == <<pc, cancelSet, ctxDone, nodesTodo, servicesMap, genQueue, config,
          cluster, sent, sentAfterCancel, outcome, last, call, ret>>

-----------------------------------------------------------------------------
(* Bounds of the model *)

\* longest list of addresses a workload carries in the resolver specification
MaxIPs == 2

-----------------------------------------------------------------------------
(* Generic helpers *)

Nil == << >>

Range(s) == {s[i] : i \in 1..Len(s)}

EmptyMap == [k \in {} |-> Nil]

\* m[k] = v on a Go map
Put(m, k, v) == (k :> v) @@ m

\* all orders in which the elements of a finite set can be listed
RECURSIVE Orderings(_)
Orderings(S) ==
    IF S = {} THEN {<< >>}
    ELSE UNION {{<<x>> \o t : t \in Orderings(S \ {x})} : x \in S}

\* all sequences over S of length at most n
RECURSIVE SeqsUpTo(_, _)
SeqsUpTo(S, n) ==
    IF n = 0 THEN {<< >>}
    ELSE LET shorter == SeqsUpTo(S, n - 1)
         IN  shorter \cup {Append(t, x) : t \in shorter, x \in S}

-----------------------------------------------------------------------------
(* Address resolution *)

\* getServiceIP: the first address that is neither "" nor 127.0.0.1, else
\* the DNS-style name "<name>.<node>"
RECURSIVE FirstValidIP(_)
FirstValidIP(ips) ==
    IF ips = << >> THEN Nil
    ELSE IF Head(ips).Address # "" /\ Head(ips).Address # "127.0.0.1"
         THEN <<Head(ips).Address>>
         ELSE FirstValidIP(Tail(ips))

getServiceIP(service, nodeName) ==
    LET found == FirstValidIP(service.IPs)
    IN  IF found # Nil THEN found[1]
        ELSE service.Name \o "." \o nodeName

\* buildServerURL with the port hint tested before the scheme hint, so that
\* https resets the port to 443
buildServerURL_SchemeAfterPort(service, server, nodeName) ==
    LET https  == server.Scheme = "https"
        scheme == IF https THEN "https" ELSE "http"
        port0  == IF server.Port # "" THEN server.Port ELSE "80"
        port   == IF https THEN "443" ELSE port0
    IN  scheme \o "://" \o getServiceIP(service, nodeName) \o ":" \o port

\* buildServerURL: fmt.Sprintf("%s://%s:%s", scheme, ip, port)
buildServerURL(service, server, nodeName) ==
    LET https  == server.Scheme = "https"
        scheme == IF https THEN "https" ELSE "http"
        port0  == IF https THEN "443" ELSE "80"
        port   == IF server.Port # "" THEN server.Port ELSE port0
    IN  scheme \o "://" \o getServiceIP(service, nodeName) \o ":" \o port

\* buildStreamServerAddress: fmt.Sprintf("%s:%s", ip, port)
buildStreamServerAddress(service, nodeName, port) ==
    getServiceIP(service, nodeName) \o ":" \o port

\* fmt.Sprintf("%s-%d", service.Name, service.ID)
DefaultID(service) == service.Name \o "-" \o ToString(service.ID)

-----------------------------------------------------------------------------
(* Labels *)

NoLabels == [k \in {} |-> ""]

\* one label: key (its segments) and value
Label(k, v) == k :> v

\* a Go map lookup: the zero value "" for a missing key
Get(labels, k) == IF k \in DOMAIN labels THEN labels[k] ELSE ""

\* strings.HasPrefix(k, "traefik.<proto>.<elemType>.")
HasPrefix(k, proto, elemType) ==
    /\ Len(k) >= 4
    /\ k[1] = "traefik"
    /\ k[2] = proto
    /\ k[3] = elemType

\* getDefinedElements: the distinct identifiers declared for proto/elemType.
\* The code returns them as a slice filled by ranging over a map, so their
\* order is arbitrary: the callers below take any ordering of this set.
getDefinedElements(labels, proto, elemType) ==
    {k[4] : k \in {kk \in DOMAIN labels : HasPrefix(kk, proto, elemType)}}

-----------------------------------------------------------------------------
(* The label decoder, parser.Decode(labels, config, "traefik",             *)
(* "traefik.http", "traefik.tcp", "traefik.udp").  It reads the labels     *)
(* under the three filters, checks every key against the fields of the     *)
(* target, and then fills the target in place, walking the keys in sorted   *)
(* order: an entry of a Routers or Services map is built and then stored   *)
(* under its identifier, replacing an entry of the same identifier.  A key *)
(* that names no field fails the call before anything is filled; a value   *)
(* that does not parse fails it at that entry, the entries before it       *)
(* already stored.                                                         *)

Protos == <<"http", "tcp", "udp">>
ElemTypes == <<"routers", "services">>

\* the identifiers of the model's labels, in lexicographic order
IdentOrder ==
    <<"db-101", "r1", "r2", "s1", "s2", "t1", "ts", "u1", "us", "web-100">>

SortIds(S) == SelectSeq(IdentOrder, LAMBDA x : x \in S)

\* strconv.ParseInt on the values the model uses; any other value is an error
IntOf == ("1" :> 1) @@ ("10" :> 10) @@ ("42" :> 42)

\* strconv.ParseBool on the values the model uses
BoolOf == ("true" :> TRUE) @@ ("false" :> FALSE)

RouterFields(proto) ==
    IF proto = "udp" THEN {"service"} ELSE {"rule", "service", "priority"}

ServerFields(proto) ==
    IF proto = "http" THEN {"url", "scheme", "port"} ELSE {"address", "port"}

\* the keys the filters select
Filtered(labels) ==
    {k \in DOMAIN labels :
        Len(k) >= 2 /\ k[1] = "traefik" /\ k[2] \in Range(Protos)}

\* the key names a field of the target configuration
KeyKnown(k) ==
    \/ /\ Len(k) = 5
       /\ k[3] = "routers"
       /\ k[5] \in RouterFields(k[2])
    \/ /\ Len(k) = 6
       /\ k[3] = "services"
       /\ k[5] = "loadbalancer"
       /\ k[6] = "passhostheader"
       /\ k[2] = "http"
    \/ /\ Len(k) = 7
       /\ k[3] = "services"
       /\ k[5] = "loadbalancer"
       /\ k[6] = "server"
       /\ k[7] \in ServerFields(k[2])

ElemKey(proto, elemType, id) == <<"traefik", proto, elemType, id>>

\* the value of one entry parses
EntryParses(labels, e) ==
    LET base == ElemKey(e[1], e[2], e[3])
    IN  IF e[2] = "routers"
        THEN base \o <<"priority">> \in DOMAIN labels
                => labels[base \o <<"priority">>] \in DOMAIN IntOf
        ELSE base \o <<"loadbalancer", "passhostheader">> \in DOMAIN labels
                => labels[base \o <<"loadbalancer", "passhostheader">>]
                      \in DOMAIN BoolOf

DecodeRouter(labels, proto, id) ==
    LET base == ElemKey(proto, "routers", id)
    IN  IF proto = "udp"
        THEN [Service |-> Get(labels, base \o <<"service">>)]
        ELSE [Service  |-> Get(labels, base \o <<"service">>),
              Rule     |-> Get(labels, base \o <<"rule">>),
              Priority |-> IF base \o <<"priority">> \in DOMAIN labels
                           THEN <<IntOf[labels[base \o <<"priority">>]]>>
                           ELSE Nil]

DecodeServers(labels, proto, id) ==
    LET base == ElemKey(proto, "services", id) \o <<"loadbalancer", "server">>
        any  == \E f \in ServerFields(proto) : base \o <<f>> \in DOMAIN labels
    IN  IF ~any THEN << >>
        ELSE IF proto = "http"
        THEN <<[URL    |-> Get(labels, base \o <<"url">>),
                Scheme |-> Get(labels, base \o <<"scheme">>),
                Port   |-> Get(labels, base \o <<"port">>)]>>
        ELSE <<[Address |-> Get(labels, base \o <<"address">>),
                Port    |-> Get(labels, base \o <<"port">>)]>>

DecodeService(labels, proto, id) ==
    LET php == ElemKey(proto, "services", id)
                  \o <<"loadbalancer", "passhostheader">>
    IN  IF proto = "http"
        THEN [LoadBalancer |->
                <<[PassHostHeader |-> IF php \in DOMAIN labels
                                      THEN <<BoolOf[labels[php]]>> ELSE Nil,
                   Servers |-> DecodeServers(labels, proto, id)]>>]
        ELSE [LoadBalancer |->
                <<[Servers |-> DecodeServers(labels, proto, id)]>>]

\* the entries the labels declare, in the order the decoder fills them
RECURSIVE Flatten(_)
Flatten(ss) == IF ss = << >> THEN << >> ELSE Head(ss) \o Flatten(Tail(ss))

FillOrder(labels) ==
    Flatten([p \in 1..3 |->
        Flatten([t \in 1..2 |->
            LET ids == SortIds(getDefinedElements(labels, Protos[p], ElemTypes[t]))
            IN  [i \in 1..Len(ids) |-> <<Protos[p], ElemTypes[t], ids[i]>>]])])

FillEntry(cfg, labels, e) ==
    IF e[2] = "routers"
    THEN [cfg EXCEPT ![e[1]].Routers =
              Put(@, e[3], DecodeRouter(labels, e[1], e[3]))]
    ELSE [cfg EXCEPT ![e[1]].Services =
              Put(@, e[3], DecodeService(labels, e[1], e[3]))]

RECURSIVE FillAll(_, _, _)
FillAll(cfg, labels, es) ==
    IF es = << >> THEN [err |-> FALSE, config |-> cfg]
    ELSE IF ~EntryParses(labels, Head(es)) THEN [err |-> TRUE, config |-> cfg]
    ELSE FillAll(FillEntry(cfg, labels, Head(es)), labels, Tail(es))

Decode(cfg, labels) ==
    IF \E k \in Filtered(labels) : ~KeyKnown(k)
    THEN [err |-> TRUE, config |-> cfg]
    ELSE FillAll(cfg, labels, FillOrder(labels))

-----------------------------------------------------------------------------
(* The aggregate configuration *)

\* generateConfiguration: the configuration before the first workload
EmptyConfig ==
    [http |-> [Routers |-> EmptyMap, Services |-> EmptyMap, Middlewares |-> EmptyMap],
     tcp  |-> [Routers |-> EmptyMap, Services |-> EmptyMap],
     udp  |-> [Routers |-> EmptyMap, Services |-> EmptyMap]]

\* &dynamic.Router{}, &dynamic.TCPRouter{}
ZeroRouter == [Service |-> "", Rule |-> "", Priority |-> Nil]
\* &dynamic.UDPRouter{}
ZeroUDPRouter == [Service |-> ""]
\* &dynamic.Service{}, &dynamic.TCPService{}, &dynamic.UDPService{}
ZeroService == [LoadBalancer |-> Nil]
\* dynamic.Server{}
ZeroServer == [URL |-> "", Scheme |-> "", Port |-> ""]
\* dynamic.TCPServer{}, dynamic.UDPServer{}
ZeroStreamServer == [Address |-> "", Port |-> ""]

\* router.Service == "" && len(definedServices) > 0
LinkService(router, definedServices) ==
    IF router.Service = "" /\ Len(definedServices) > 0
    THEN definedServices[1] ELSE router.Service

\* EnrichHTTPRouter without the default priority
EnrichHTTPRouter_NoDefaultPriority(router, service, definedServices) ==
    [Service  |-> LinkService(router, definedServices),
     Rule     |-> IF router.Rule = ""
                  THEN "Host('" \o service.Name \o "')" ELSE router.Rule,
     Priority |-> router.Priority]

\* buildHTTPConfiguration, the body of the loop over definedRouters
EnrichHTTPRouter(router, service, definedServices) ==
    [Service  |-> LinkService(router, definedServices),
     Rule     |-> IF router.Rule = ""
                  THEN "Host('" \o service.Name \o "')" ELSE router.Rule,
     Priority |-> IF router.Priority = Nil THEN <<1>> ELSE router.Priority]

\* buildHTTPConfiguration, the body of the loop over definedServices
EnrichHTTPService(configService, service, nodeName) ==
    LET lb0 == IF configService.LoadBalancer = Nil
               THEN [PassHostHeader |-> Nil, Servers |-> << >>]
               ELSE configService.LoadBalancer[1]
        php == IF lb0.PassHostHeader = Nil THEN <<TRUE>> ELSE lb0.PassHostHeader
        srv == IF Len(lb0.Servers) = 0 THEN <<ZeroServer>> ELSE lb0.Servers
    IN  [LoadBalancer |->
           <<[PassHostHeader |-> php,
              Servers |-> [i \in 1..Len(srv) |->
                  IF srv[i].URL = ""
                  THEN [srv[i] EXCEPT !.URL = buildServerURL(service, srv[i], nodeName)]
                  ELSE srv[i]]]>>]

\* buildHTTPConfiguration.  definedRouters and definedServices are the
\* slices getDefinedElements returned.
buildHTTPConfiguration(httpConfig, service, nodeName, definedRouters, definedServices) ==
    LET defaultID == DefaultID(service)
        noR == Len(definedRouters) = 0
        noS == Len(definedServices) = 0
        routers0  == IF noR THEN Put(httpConfig.Routers, defaultID, ZeroRouter)
                     ELSE httpConfig.Routers
        services0 == IF noS THEN Put(httpConfig.Services, defaultID, ZeroService)
                     ELSE httpConfig.Services
        dR == IF noR THEN <<defaultID>> ELSE definedRouters
        dS == IF noS THEN <<defaultID>> ELSE definedServices
    IN  [httpConfig EXCEPT
           !.Routers  = [id \in DOMAIN routers0 |->
                           IF id \in Range(dR)
                           THEN EnrichHTTPRouter(routers0[id], service, dS)
                           ELSE routers0[id]],
           !.Services = [id \in DOMAIN services0 |->
                           IF id \in Range(dS)
                           THEN EnrichHTTPService(services0[id], service, nodeName)
                           ELSE services0[id]]]

\* buildTCPConfiguration, the body of the loop over definedRouters
EnrichTCPRouter(router, definedServices) ==
    [Service  |-> LinkService(router, definedServices),
     Rule     |-> IF router.Rule = "" THEN "HostSNI('*')" ELSE router.Rule,
     Priority |-> IF router.Priority = Nil THEN <<1>> ELSE router.Priority]

\* buildUDPConfiguration, the body of the loop over definedRouters
EnrichUDPRouter(router, definedServices) ==
    [Service |-> LinkService(router, definedServices)]

\* EnrichStreamServer resolving the address whenever a port hint is there
EnrichStreamServer_Overwrites(server, service, nodeName) ==
    IF server.Port = "" THEN server
    ELSE [server EXCEPT
            !.Address = buildStreamServerAddress(service, nodeName, server.Port)]

\* build{TCP,UDP}Configuration, the body of the loop over a service's servers
EnrichStreamServer(server, service, nodeName) ==
    IF server.Address = ""
    THEN IF server.Port = ""
         THEN server
         ELSE [server EXCEPT
                 !.Address = buildStreamServerAddress(service, nodeName, server.Port)]
    ELSE server

\* build{TCP,UDP}Configuration, the body of the loop over definedServices
EnrichStreamService(configService, service, nodeName) ==
    LET lb0 == IF configService.LoadBalancer = Nil
               THEN [Servers |-> << >>]
               ELSE configService.LoadBalancer[1]
        srv == IF Len(lb0.Servers) = 0 THEN <<ZeroStreamServer>> ELSE lb0.Servers
    IN  [LoadBalancer |->
           <<[Servers |-> [i \in 1..Len(srv) |->
                             EnrichStreamServer(srv[i], service, nodeName)]]>>]

\* NeedsDefaultStreamService with the policy of HTTP: a default whenever no
\* service is declared
NeedsDefaultStreamService_AsHTTP(definedRouters, definedServices) ==
    Len(definedServices) = 0

\* len(definedRouters) > 0 && len(definedServices) == 0
NeedsDefaultStreamService(definedRouters, definedServices) ==
    Len(definedRouters) > 0 /\ Len(definedServices) = 0

\* buildTCPConfiguration
buildTCPConfiguration(tcpConfig, service, nodeName, definedRouters, definedServices) ==
    LET defaultID == DefaultID(service)
        mk == NeedsDefaultStreamService(definedRouters, definedServices)
        services0 == IF mk THEN Put(tcpConfig.Services, defaultID, ZeroService)
                     ELSE tcpConfig.Services
        dS == IF mk THEN <<defaultID>> ELSE definedServices
    IN  [tcpConfig EXCEPT
           !.Routers  = [id \in DOMAIN tcpConfig.Routers |->
                           IF id \in Range(definedRouters)
                           THEN EnrichTCPRouter(tcpConfig.Routers[id], dS)
                           ELSE tcpConfig.Routers[id]],
           !.Services = [id \in DOMAIN services0 |->
                           IF id \in Range(dS)
                           THEN EnrichStreamService(services0[id], service, nodeName)
                           ELSE services0[id]]]

\* buildUDPConfiguration
buildUDPConfiguration(udpConfig, service, nodeName, definedRouters, definedServices) ==
    LET defaultID == DefaultID(service)
        mk == NeedsDefaultStreamService(definedRouters, definedServices)
        services0 == IF mk THEN Put(udpConfig.Services, defaultID, ZeroService)
                     ELSE udpConfig.Services
        dS == IF mk THEN <<defaultID>> ELSE definedServices
    IN  [udpConfig EXCEPT
           !.Routers  = [id \in DOMAIN udpConfig.Routers |->
                           IF id \in Range(definedRouters)
                           THEN EnrichUDPRouter(udpConfig.Routers[id], dS)
                           ELSE udpConfig.Routers[id]],
           !.Services = [id \in DOMAIN services0 |->
                           IF id \in Range(dS)
                           THEN EnrichStreamService(services0[id], service, nodeName)
                           ELSE services0[id]]]

\* the orders in which getDefinedElements may list what the labels declare:
\* [proto |-> [routers, services]]
ProtoOrders(labels, proto) ==
    {[routers |-> r, services |-> s] :
        r \in Orderings(getDefinedElements(labels, proto, "routers")),
        s \in Orderings(getDefinedElements(labels, proto, "services"))}

DefinedOrders(labels) ==
    {[http |-> h, tcp |-> t, udp |-> u] :
        h \in ProtoOrders(labels, "http"),
        t \in ProtoOrders(labels, "tcp"),
        u \in ProtoOrders(labels, "udp")}

\* generateConfiguration, the three build calls after a successful decode
buildAll(cfg, service, nodeName, d) ==
    [http |-> buildHTTPConfiguration(cfg.http, service, nodeName,
                                     d.http.routers, d.http.services),
     tcp  |-> buildTCPConfiguration(cfg.tcp, service, nodeName,
                                    d.tcp.routers, d.tcp.services),
     udp  |-> buildUDPConfiguration(cfg.udp, service, nodeName,
                                    d.udp.routers, d.udp.services)]

\* generateConfiguration, one iteration of the inner loop: decode, and on an
\* error skip the workload, else build the three protocols
processService(cfg, service, nodeName, d) ==
    LET dec == Decode(cfg, service.Config)
    IN  IF dec.err THEN dec.config
        ELSE buildAll(dec.config, service, nodeName, d)

-----------------------------------------------------------------------------
(* The cluster scan.  What the cluster client answers for one node is a    *)
(* record [vmsErr, vms, ctsErr, cts]; each workload of vms and cts is a     *)
(* record [VMID, Name, Status, cfgErr, labels, ipsErr, ips]: its listing    *)
(* entry, whether fetching its configuration fails, the label map          *)
(* GetTraefikMap returns, whether fetching its interfaces fails, and the    *)
(* addresses GetIPs returns.                                               *)

EnableKey == <<"traefik", "enable">>

\* internal.NewService(id, name, configMap); IPs is nil until set
NewService(id, name, configMap) ==
    [ID |-> id, Name |-> name, Config |-> configMap, IPs |-> << >>]

\* getIPsOfService: the IPv4 addresses other than 127.0.0.1
getIPsOfService(w) ==
    IF w.ipsErr THEN [err |-> TRUE, ips |-> << >>]
    ELSE [err |-> FALSE,
          ips |-> SelectSeq(w.ips, LAMBDA ip :
                     /\ ip.AddressType \in {"ipv4", "inet"}
                     /\ ip.Address # "127.0.0.1")]

\* scanServices: append the service of a workload that passed the checks
WithIPs(w) ==
    LET service == NewService(w.VMID, w.Name, w.labels)
        got     == getIPsOfService(w)
    IN  IF got.err THEN service ELSE [service EXCEPT !.IPs = got.ips]

\* scanServices, the body of the loop over the virtual machines: the
\* traefik.enable test only logs, it has no continue
scanVM(w) ==
    IF w.Status # "running" THEN << >>
    ELSE IF w.cfgErr THEN << >>
    ELSE <<WithIPs(w)>>

\* scanServices, the body of the loop over the containers
scanContainer(w) ==
    IF w.Status # "running" THEN << >>
    ELSE IF w.cfgErr THEN << >>
    ELSE IF Get(w.labels, EnableKey) # "true" THEN << >>
    ELSE <<WithIPs(w)>>

\* scanServices returning the error of a failed configuration fetch
\* instead of skipping the workload
scanServices_AbortsOnConfigError(env) ==
    IF env.vmsErr THEN [err |-> TRUE, services |-> << >>]
    ELSE IF \E i \in 1..Len(env.vms) : env.vms[i].cfgErr
    THEN [err |-> TRUE, services |-> << >>]
    ELSE IF env.ctsErr THEN [err |-> TRUE, services |-> << >>]
    ELSE IF \E i \in 1..Len(env.cts) : env.cts[i].cfgErr
    THEN [err |-> TRUE, services |-> << >>]
    ELSE [err |-> FALSE,
          services |-> Flatten([i \in 1..Len(env.vms) |-> scanVM(env.vms[i])])
                       \o Flatten([i \in 1..Len(env.cts) |-> scanContainer(env.cts[i])])]

\* scanServices
scanServices(env) ==
    IF env.vmsErr THEN [err |-> TRUE, services |-> << >>]
    ELSE IF env.ctsErr THEN [err |-> TRUE, services |-> << >>]
    ELSE [err |-> FALSE,
          services |-> Flatten([i \in 1..Len(env.vms) |-> scanVM(env.vms[i])])
                       \o Flatten([i \in 1..Len(env.cts) |-> scanContainer(env.cts[i])])]

-----------------------------------------------------------------------------
(* The cluster the provider polls *)

\* the workloads of each node: <<id, name>>
Inventory ==
    [pve1 |-> [vms |-> << <<100, "web">> >>, cts |-> << <<101, "db">> >>],
     pve2 |-> [vms |-> << >>,               cts |-> << <<102, "app">> >>]]

\* what GetNodes may return
NodeLists == {<< >>, <<"pve1">>, <<"pve1", "pve2">>}

\* the label maps a workload of the polled cluster may carry
ScanLabels ==
    { NoLabels,
      Label(EnableKey, "true"),
      Label(EnableKey, "false"),
      Label(EnableKey, "true")
         @@ Label(<<"traefik", "tcp", "routers", "t1", "rule">>, "HostSNI('db.test')") }

\* the interface reports a workload of the polled cluster may give
RawIPLists ==
    { << >>,
      <<[Address |-> "127.0.0.1", AddressType |-> "ipv4"],
        [Address |-> "10.0.0.5", AddressType |-> "ipv4"]>>,
      <<[Address |-> "fe80::1", AddressType |-> "ipv6"],
        [Address |-> "10.0.0.6", AddressType |-> "inet"]>> }

Workload(w, status, cfgErr, labels, ipsErr, ips) ==
    [VMID |-> w[1], Name |-> w[2], Status |-> status, cfgErr |-> cfgErr,
     labels |-> labels, ipsErr |-> ipsErr, ips |-> ips]

\* the answers for one workload; what the scan never asks for is left at
\* its zero value.  gated: the scan stops at a traefik.enable other than
\* "true" (the containers).
WorkloadAnswers(w, gated) ==
    {Workload(w, "stopped", FALSE, NoLabels, FALSE, << >>),
     Workload(w, "running", TRUE, NoLabels, FALSE, << >>)}
    \cup {Workload(w, "running", FALSE, l, FALSE, << >>) :
            l \in {ll \in ScanLabels : gated /\ Get(ll, EnableKey) # "true"}}
    \cup {Workload(w, "running", FALSE, l, TRUE, << >>) :
            l \in {ll \in ScanLabels : ~gated \/ Get(ll, EnableKey) = "true"}}
    \cup {Workload(w, "running", FALSE, l, FALSE, ips) :
            l \in {ll \in ScanLabels : ~gated \/ Get(ll, EnableKey) = "true"},
            ips \in RawIPLists}

\* the answers for a list of workloads
RECURSIVE ListAnswers(_, _)
ListAnswers(ws, gated) ==
    IF ws = << >> THEN {<< >>}
    ELSE {<<a>> \o rest : a \in WorkloadAnswers(Head(ws), gated),
                          rest \in ListAnswers(Tail(ws), gated)}

\* the answers for one node
NodeAnswers(node) ==
    {[vmsErr |-> TRUE, vms |-> << >>, ctsErr |-> FALSE, cts |-> << >>]}
    \cup {[vmsErr |-> FALSE, vms |-> v, ctsErr |-> TRUE, cts |-> << >>] :
            v \in ListAnswers(Inventory[node].vms, FALSE)}
    \cup {[vmsErr |-> FALSE, vms |-> v, ctsErr |-> FALSE, cts |-> c] :
            v \in ListAnswers(Inventory[node].vms, FALSE),
            c \in ListAnswers(Inventory[node].cts, TRUE)}

\* The cluster client takes the context of Provide with every call and
\* honours it: a call made once the context is done fails.
ClientCanAnswer == ~ctxDone

ClientNodeAnswers(node) ==
    IF ClientCanAnswer THEN NodeAnswers(node)
    ELSE {[vmsErr |-> TRUE, vms |-> << >>, ctsErr |-> FALSE, cts |-> << >>]}

NoCluster == [nodes |-> "none", list |-> << >>, answer |-> EmptyMap]

-----------------------------------------------------------------------------
(* The provider: Provide, loadConfiguration, updateConfiguration, Stop.    *)
(* pc is where the goroutine started by Provide stands:                    *)
(*   "idle"      Provide has not been called                               *)
(*   "update"    updateConfiguration entered, before client.GetNodes       *)
(*   "scan"      in getServiceMap's loop over the nodes                    *)
(*   "generate"  in generateConfiguration; with genQueue empty, at the     *)
(*               send on cfgChan                                           *)
(*   "select"    at the select of loadConfiguration                        *)
(*   "exited"    loadConfiguration returned on ctx.Done()                  *)
(*   "recovered" a panic unwound the goroutine to the deferred recover,    *)
(*               which logged it; the goroutine has ended                  *)

InCycle == pc \in {"update", "scan", "generate"}

\* the locals of a cycle, as they are before and after it
ResetLocals ==
    /\ nodesTodo' = << >>
    /\ servicesMap' = EmptyMap
    /\ genQueue' = << >>
    /\ config' = EmptyConfig
    /\ last' = Nil

\* Provide: create the context, keep its cancel, start the goroutine, whose
\* first statement after the ticker is the initial updateConfiguration
Provide ==
    /\ pc = "idle"
    /\ pc' = "update"
    /\ cancelSet' = TRUE
    /\ UNCHANGED <<ctxDone, nodesTodo, servicesMap, genQueue, config, cluster,
                   sent, sentAfterCancel, outcome, last, call, ret>>

\* Stop: cancel the context if Provide has set p.cancel
Stop ==
    /\ ctxDone' = (ctxDone \/ cancelSet)
    /\ UNCHANGED <<pc, cancelSet, nodesTodo, servicesMap, genQueue, config,
                   cluster, sent, sentAfterCancel, outcome, last, call, ret>>

\* loadConfiguration, case <-ticker.C: a new cycle.  Go's select takes any
\* ready case, so a tick may be taken although the context is done.
Tick ==
    /\ pc = "select"
    /\ pc' = "update"
    /\ sent' = 0
    /\ cluster' = NoCluster
    /\ UNCHANGED <<cancelSet, ctxDone, nodesTodo, servicesMap, genQueue, config,
                   sentAfterCancel, outcome, last, call, ret>>

\* loadConfiguration, case <-ctx.Done(): return
CtxDone ==
    /\ pc = "select"
    /\ ctxDone
    /\ pc' = "exited"
    /\ UNCHANGED <<cancelSet, ctxDone, nodesTodo, servicesMap, genQueue, config,
                   cluster, sent, sentAfterCancel, outcome, last, call, ret>>

\* GetNodesFails with updateConfiguration sending the empty configuration
\* before it returns the error
GetNodesFails_SendsEmpty ==
    /\ pc = "update"
    /\ pc' = "select"
    /\ outcome' = "err"
    /\ sent' = sent + 1
    /\ cluster' = [cluster EXCEPT !.nodes = "err"]
    /\ UNCHANGED <<cancelSet, ctxDone, nodesTodo, servicesMap, genQueue, config,
                   sentAfterCancel, last, call, ret>>

\* updateConfiguration -> getServiceMap: client.GetNodes fails, getServiceMap
\* and updateConfiguration return the error, loadConfiguration logs it and
\* goes (back) to the select
GetNodesFails ==
    /\ pc = "update"
    /\ pc' = "select"
    /\ outcome' = "err"
    /\ cluster' = [cluster EXCEPT !.nodes = "err"]
    /\ UNCHANGED <<cancelSet, ctxDone, nodesTodo, servicesMap, genQueue, config,
                   sent, sentAfterCancel, last, call, ret>>

\* updateConfiguration -> getServiceMap: client.GetNodes returns the nodes
GetNodesReturns ==
    /\ pc = "update"
    /\ ClientCanAnswer
    /\ \E nodes \in NodeLists :
          /\ nodesTodo' = nodes
          /\ cluster' = [nodes |-> "ok", list |-> nodes, answer |-> EmptyMap]
    /\ servicesMap' = EmptyMap
    /\ pc' = "scan"
    /\ UNCHANGED <<cancelSet, ctxDone, genQueue, config, sent, sentAfterCancel,
                   outcome, last, call, ret>>

\* getServiceMap, one iteration of the loop over the nodes: an error of
\* scanServices is logged and the node skipped
ScanNode ==
    /\ pc = "scan"
    /\ nodesTodo # << >>
    /\ LET node == Head(nodesTodo)
       IN  \E env \in ClientNodeAnswers(node) :
              LET r == scanServices(env)
              IN  /\ servicesMap' = IF r.err THEN servicesMap
                                    ELSE Put(servicesMap, node, r.services)
                  /\ cluster' = [cluster EXCEPT !.answer = Put(@, node, env)]
    /\ nodesTodo' = Tail(nodesTodo)
    /\ UNCHANGED <<pc, cancelSet, ctxDone, genQueue, config, sent,
                   sentAfterCancel, outcome, last, call, ret>>

\* the (node, service) pairs in the order the two loops of
\* generateConfiguration visit them, for one order of the nodes
VisitOrder(m, nodeOrder) ==
    Flatten([i \in 1..Len(nodeOrder) |->
        [j \in 1..Len(m[nodeOrder[i]]) |->
            [node |-> nodeOrder[i], service |-> m[nodeOrder[i]][j]]]])

\* getServiceMap returns the map; generateConfiguration creates the empty
\* configuration and ranges over the map, in an order Go leaves open
StartGenerate ==
    /\ pc = "scan"
    /\ nodesTodo = << >>
    /\ \E nodeOrder \in Orderings(DOMAIN servicesMap) :
          genQueue' = VisitOrder(servicesMap, nodeOrder)
    /\ config' = EmptyConfig
    /\ last' = Nil
    /\ pc' = "generate"
    /\ UNCHANGED <<cancelSet, ctxDone, nodesTodo, servicesMap, cluster, sent,
                   sentAfterCancel, outcome, call, ret>>

\* generateConfiguration, one iteration of the inner loop
ProcessService ==
    /\ pc = "generate"
    /\ genQueue # << >>
    /\ LET node    == Head(genQueue).node
           service == Head(genQueue).service
           dec     == Decode(config, service.Config)
       IN  \E d \in DefinedOrders(service.Config) :
              /\ config' = processService(config, service, node, d)
              /\ last' = [node |-> node, service |-> service, err |-> dec.err,
                          before |-> config, decoded |-> dec.config, defined |-> d]
    /\ genQueue' = Tail(genQueue)
    /\ UNCHANGED <<pc, cancelSet, ctxDone, nodesTodo, servicesMap, cluster, sent,
                   sentAfterCancel, outcome, call, ret>>

\* updateConfiguration: generateConfiguration has returned; the send on
\* cfgChan completes when the consumer receives, whatever the context says;
\* updateConfiguration returns nil and loadConfiguration goes to the select
SendPayload ==
    /\ pc = "generate"
    /\ genQueue = << >>
    /\ sent' = sent + 1
    /\ sentAfterCancel' = (sentAfterCancel \/ ctxDone)
    /\ outcome' = "ok"
    /\ pc' = "select"
    /\ ResetLocals
    /\ UNCHANGED <<cancelSet, ctxDone, cluster, call, ret>>

\* Provide, the deferred recover: a panic anywhere in the goroutine unwinds
\* loadConfiguration (stopping the ticker) and the goroutine's function; the
\* recover logs it and the goroutine ends
Panic ==
    /\ pc \in {"update", "scan", "generate", "select"}
    /\ pc' = "recovered"
    /\ ResetLocals
    /\ UNCHANGED <<cancelSet, ctxDone, cluster, sent, sentAfterCancel, outcome,
                   call, ret>>

Init ==
    /\ pc = "idle"
    /\ cancelSet = FALSE
    /\ ctxDone = FALSE
    /\ nodesTodo = << >>
    /\ servicesMap = EmptyMap
    /\ genQueue = << >>
    /\ config = EmptyConfig
    /\ cluster = NoCluster
    /\ sent = 0
    /\ sentAfterCancel = FALSE
    /\ outcome = "none"
    /\ last = Nil
    /\ call = Nil
    /\ ret = Nil

Next ==
    \/ Provide
    \/ Stop
    \/ Tick
    \/ CtxDone
    \/ GetNodesFails
    \/ GetNodesReturns
    \/ ScanNode
    \/ StartGenerate
    \/ ProcessService
    \/ SendPayload
    \/ Panic

Spec == Init /\ [][Next]_vars

-----------------------------------------------------------------------------
(* generateConfiguration on its own: the service map is drawn from label   *)
(* maps that declare routers and services of the three protocols.          *)

HR(id, f) == <<"traefik", "http", "routers", id, f>>
HS(id, f) == <<"traefik", "http", "services", id, "loadbalancer", "server", f>>
HP(id)    == <<"traefik", "http", "services", id, "loadbalancer", "passhostheader">>
TR(id, f) == <<"traefik", "tcp", "routers", id, f>>
TS(id, f) == <<"traefik", "tcp", "services", id, "loadbalancer", "server", f>>
UR(id, f) == <<"traefik", "udp", "routers", id, f>>
US(id, f) == <<"traefik", "udp", "services", id, "loadbalancer", "server", f>>

GenLabels ==
    { \* nothing declared
      Label(EnableKey, "true"),
      \* an HTTP router and no service
      Label(HR("r1", "rule"), "Host('x.test')"),
      \* an HTTP service with a scheme hint and no router
      Label(HS("s1", "scheme"), "https"),
      \* an HTTP router bound to a service with a port hint
      Label(HR("r1", "service"), "s1") @@ Label(HR("r1", "priority"), "10")
         @@ Label(HS("s1", "port"), "8080") @@ Label(HP("s1"), "false"),
      \* an HTTP service whose URL is given
      Label(HS("s1", "url"), "http://192.0.2.1:9") @@ Label(HS("s1", "port"), "8080"),
      \* two HTTP services and a router bound to neither
      Label(HR("r2", "rule"), "Host('y.test')")
         @@ Label(HS("s1", "port"), "8080") @@ Label(HS("s2", "scheme"), "h2c"),
      \* an HTTP service named like the default of workload 101
      Label(HS("db-101", "port"), "81"),
      \* a TCP router and no service
      Label(TR("t1", "rule"), "HostSNI('db.test')"),
      \* a TCP service with a port hint
      Label(TS("ts", "port"), "5432"),
      \* a TCP service with an address and a port hint, and its router
      Label(TR("t1", "service"), "ts")
         @@ Label(TS("ts", "address"), "192.0.2.9:1") @@ Label(TS("ts", "port"), "5432"),
      \* a UDP router and no service
      Label(UR("u1", "service"), ""),
      \* a UDP service with a port hint, and a UDP service with an address
      Label(UR("u1", "service"), "us") @@ Label(US("us", "port"), "53"),
      Label(US("us", "address"), "192.0.2.9:53") @@ Label(US("us", "port"), "54"),
      \* a key that names no field
      Label(HR("r1", "bogus"), "x") @@ Label(HS("s1", "port"), "8080"),
      \* a TCP priority that does not parse, after an HTTP service without servers
      Label(HP("s1"), "true") @@ Label(TR("t1", "priority"), "high") }

\* the addresses of a scanned service: getIPsOfService has filtered them
GenIPs ==
    { << >>,
      <<[Address |-> "", AddressType |-> "ipv4"],
        [Address |-> "10.0.0.5", AddressType |-> "ipv4"]>> }

GenServices(w) ==
    {[ID |-> w[1], Name |-> w[2], Config |-> l, IPs |-> ips] :
        l \in GenLabels, ips \in GenIPs}

\* service maps of one VM on pve1 and one container on pve2
GenMaps ==
    {("pve1" :> <<a>>) @@ ("pve2" :> <<b>>) :
        a \in GenServices(<<100, "web">>), b \in GenServices(<<101, "db">>)}

InitGen ==
    /\ pc = "scan"
    /\ cancelSet = TRUE
    /\ ctxDone = FALSE
    /\ nodesTodo = << >>
    /\ servicesMap \in GenMaps
    /\ genQueue = << >>
    /\ config = EmptyConfig
    /\ cluster = NoCluster
    /\ sent = 0
    /\ sentAfterCancel = FALSE
    /\ outcome = "none"
    /\ last = Nil
    /\ call = Nil
    /\ ret = Nil

NextGen ==
    \/ StartGenerate
    \/ ProcessService

SpecGen == InitGen /\ [][NextGen]_vars

\* generateConfiguration has returned
Generated == pc = "generate" /\ genQueue = << >>

-----------------------------------------------------------------------------
(* buildServerURL on its own: the arguments are drawn from bounded sets.   *)

Addrs == {"", "127.0.0.1", "10.0.0.5", "10.0.0.6"}
Schemes == {"", "http", "https", "HTTPS", "h2c"}
Ports == {"", "8080"}

URLCalls ==
    {[service |-> [ID |-> 100, Name |-> "web", Config |-> NoLabels,
                   IPs |-> [i \in 1..Len(as) |->
                              [Address |-> as[i], AddressType |-> "ipv4"]]],
      server |-> [URL |-> "", Scheme |-> sc, Port |-> po],
      nodeName |-> "pve1"] :
        as \in SeqsUpTo(Addrs, MaxIPs), sc \in Schemes, po \in Ports}

InitURL ==
    /\ pc = "idle"
    /\ cancelSet = FALSE
    /\ ctxDone = FALSE
    /\ nodesTodo = << >>
    /\ servicesMap = EmptyMap
    /\ genQueue = << >>
    /\ config = EmptyConfig
    /\ cluster = NoCluster
    /\ sent = 0
    /\ sentAfterCancel = FALSE
    /\ outcome = "none"
    /\ last = Nil
    /\ call \in {<<c>> : c \in URLCalls}
    /\ ret = Nil

\* server.URL = buildServerURL(service, server, nodeName)
CallBuildServerURL ==
    /\ call # Nil
    /\ ret = Nil
    /\ ret' = <<buildServerURL(call[1].service, call[1].server, call[1].nodeName)>>
    /\ UNCHANGED <<pc, cancelSet, ctxDone, nodesTodo, servicesMap, genQueue,
                   config, cluster, sent, sentAfterCancel, outcome, last, call>>

NextURL == CallBuildServerURL

SpecURL == InitURL /\ [][NextURL]_vars

-----------------------------------------------------------------------------
(* Properties *)

Enabled(labels) == Get(labels, EnableKey) = "true"

\* the host a server of the workload resolves to, stated without the loop
\* of getServiceIP: the address at the least index that qualifies
ResolvedHost(service, nodeName) ==
    LET ok == {i \in 1..Len(service.IPs) :
                  service.IPs[i].Address \notin {"", "127.0.0.1"}}
    IN  IF ok = {} THEN service.Name \o "." \o nodeName
        ELSE service.IPs[CHOOSE i \in ok : \A j \in ok : i <= j].Address

\* C1: every workload scanServices puts in a node's list carries the label
\* traefik.enable with exactly the value "true", virtual machine or
\* container alike.
C1_OnlyEnabledScanned ==
    \A n \in DOMAIN servicesMap :
        \A svc \in Range(servicesMap[n]) : Enabled(svc.Config)

\* C2: once a panic in the polling goroutine has been caught and logged, a
\* timer tick can still start updateConfiguration.
C2_TicksAfterPanic ==
    pc = "recovered" => ENABLED Tick

\* C3: no payload is sent on the consumer channel after Stop has cancelled
\* the context.
C3_NoSendAfterCancel ==
    ~sentAfterCancel

-----------------------------------------------------------------------------
(* What the last iteration of generateConfiguration's loop worked on *)

Processed == last # Nil /\ ~last.err

LastDeclared(proto, elemType) ==
    getDefinedElements(last.service.Config, proto, elemType)

LastID == DefaultID(last.service)
LastHost == ResolvedHost(last.service, last.node)

\* C4: a workload processed with no HTTP router and no HTTP service declared
\* adds exactly the router and the service "<name>-<id>" to the HTTP maps:
\* the router bound to "<name>-<id>", rule Host('<name>'), priority 1; the
\* service with pass-host-header true and the one server
\* http://<resolved-host>:80.
C4_HTTPDefaults ==
    ( /\ Processed
      /\ LastDeclared("http", "routers") = {}
      /\ LastDeclared("http", "services") = {} )
    => /\ config.http.Routers =
             Put(last.before.http.Routers, LastID,
                 [Service  |-> LastID,
                  Rule     |-> "Host('" \o last.service.Name \o "')",
                  Priority |-> <<1>>])
       /\ config.http.Services =
             Put(last.before.http.Services, LastID,
                 [LoadBalancer |->
                    <<[PassHostHeader |-> <<TRUE>>,
                       Servers |-> <<[URL    |-> "http://" \o LastHost \o ":80",
                                      Scheme |-> "",
                                      Port   |-> ""]>>]>>])

\* C4 witness: the second workload of a pass declares nothing for HTTP and
\* its defaults stand beside the entries of the first
C4_Witness ==
    /\ Processed
    /\ LastDeclared("http", "routers") = {}
    /\ LastDeclared("http", "services") = {}
    /\ last.before.http.Routers # EmptyMap
    /\ LastID \notin DOMAIN last.before.http.Routers
    /\ LastID \in DOMAIN config.http.Routers
    /\ LastID \in DOMAIN config.http.Services

StreamProtos == {"tcp", "udp"}

\* C5: for TCP and for UDP, processing a workload creates the default
\* service "<name>-<id>" exactly when its labels declare a router and no
\* service of the protocol; the routers are those the labels declare, none
\* is synthesized; with neither declared the protocol's maps are untouched.
C5_StreamDefaults ==
    Processed =>
      \A p \in StreamProtos :
        LET R == LastDeclared(p, "routers")
            S == LastDeclared(p, "services")
            create == R # {} /\ S = {}
        IN  /\ DOMAIN config[p].Services =
                  DOMAIN last.before[p].Services \cup S
                     \cup (IF create THEN {LastID} ELSE {})
            /\ DOMAIN config[p].Routers = DOMAIN last.before[p].Routers \cup R
            /\ create =>
                  config[p].Services[LastID] =
                     [LoadBalancer |-> <<[Servers |-> <<ZeroStreamServer>>]>>]
            /\ (R = {} /\ S = {}) => config[p] = last.before[p]

\* C5 witness: a TCP router and no TCP service: the default service is there
C5_Witness ==
    /\ Processed
    /\ LastDeclared("tcp", "routers") # {}
    /\ LastDeclared("tcp", "services") = {}
    /\ LastDeclared("udp", "routers") = {}
    /\ LastDeclared("udp", "services") = {}
    /\ LastID \in DOMAIN config.tcp.Services
    /\ LastID \notin DOMAIN config.udp.Services

\* C6: a poll cycle sends at most one payload; when it is over, it has sent
\* exactly one if the node enumeration succeeded and none if it failed; the
\* failed cycle ended with the error reported, and from the select the next
\* tick can start the next cycle.
C6_OnePayloadPerCycle ==
    /\ sent \in {0, 1}
    /\ InCycle => sent = 0
    /\ pc = "select" =>
          /\ cluster.nodes \in {"ok", "err"}
          /\ cluster.nodes = "ok"  => (sent = 1 /\ outcome = "ok")
          /\ cluster.nodes = "err" => (sent = 0 /\ outcome = "err")
          /\ ENABLED Tick

\* C6 witness: the cycle before failed at the node enumeration, and the
\* cycle after it has generated its configuration
C6_Witness ==
    /\ outcome = "err"
    /\ cluster.nodes = "ok"
    /\ Generated
    /\ sent = 0

Workloads(env) == Range(env.vms) \cup Range(env.cts)

Listed(n, w) ==
    \E svc \in Range(servicesMap[n]) :
        /\ svc.ID = w.VMID
        /\ svc.Name = w.Name
        /\ svc.Config = w.labels

\* C7: when getServiceMap has returned, a node whose listing of virtual
\* machines or of containers failed is missing from the service map, and
\* every other node is in it with each of its running, enabled workloads
\* whose configuration could be fetched; and a cycle whose node enumeration
\* succeeded ends with its payload sent, never with an error.
C7_FailuresAreLocal ==
    /\ pc = "generate" =>
          \A n \in Range(cluster.list) :
              LET env == cluster.answer[n]
              IN  IF env.vmsErr \/ env.ctsErr
                  THEN n \notin DOMAIN servicesMap
                  ELSE /\ n \in DOMAIN servicesMap
                       /\ \A w \in Workloads(env) :
                             ( /\ w.Status = "running"
                               /\ ~w.cfgErr
                               /\ Enabled(w.labels) ) => Listed(n, w)
    /\ (pc = "select" /\ outcome = "err") => cluster.nodes = "err"
    /\ (pc = "select" /\ cluster.nodes = "ok") => sent = 1

\* C7 witness: the container listing of pve2 failed and the configuration of
\* VM web could not be fetched; container db of pve1 is in the map, which
\* generateConfiguration has turned into the snapshot to send
C7_Witness ==
    /\ Generated
    /\ cluster.list = <<"pve1", "pve2">>
    /\ cluster.answer["pve2"].ctsErr
    /\ ~cluster.answer["pve1"].vmsErr
    /\ ~cluster.answer["pve1"].ctsErr
    /\ cluster.answer["pve1"].vms[1].cfgErr
    /\ DOMAIN servicesMap = {"pve1"}
    /\ Len(servicesMap["pve1"]) = 1
    /\ servicesMap["pve1"][1].Name = "db"
    /\ "db-101" \in DOMAIN config.http.Routers

\* C8: buildServerURL returns "<scheme>://<host>:<port>": https exactly for
\* the scheme hint "https", else http; the port hint if there is one, else
\* 443 for https and 80 for http; the host the first address that is neither
\* empty nor 127.0.0.1, else "<name>.<node>".
C8_ServerURL ==
    ret # Nil =>
      LET c      == call[1]
          https  == c.server.Scheme = "https"
          scheme == IF https THEN "https" ELSE "http"
          port   == IF c.server.Port # "" THEN c.server.Port
                    ELSE IF https THEN "443" ELSE "80"
      IN  ret[1] = scheme \o "://" \o ResolvedHost(c.service, c.nodeName)
                      \o ":" \o port

\* C8 witness: https without a port hint, the loopback address reported first
C8_Witness ==
    /\ ret = <<"https://10.0.0.5:443">>
    /\ Len(call[1].service.IPs) = 2
    /\ call[1].service.IPs[1].Address = "127.0.0.1"

\* C9: in a TCP or UDP service enriched for a workload, a server keeps the
\* address it had, port hint or not; without an address it gets
\* "<resolved-host>:<port>" from its port hint; with neither its address
\* stays empty, as does that of the placeholder of a default service.
C9_StreamAddresses ==
    Processed =>
      \A p \in StreamProtos :
        /\ \A id \in LastDeclared(p, "services") :
              LET pre  == last.decoded[p].Services[id].LoadBalancer[1].Servers
                  post == config[p].Services[id].LoadBalancer[1].Servers
              IN  IF pre = << >> THEN post = <<ZeroStreamServer>>
                  ELSE /\ Len(post) = Len(pre)
                       /\ \A i \in 1..Len(pre) :
                             /\ post[i].Port = pre[i].Port
                             /\ post[i].Address =
                                   IF pre[i].Address # "" THEN pre[i].Address
                                   ELSE IF pre[i].Port # ""
                                   THEN LastHost \o ":" \o pre[i].Port
                                   ELSE ""
        /\ ( /\ LastDeclared(p, "routers") # {}
             /\ LastDeclared(p, "services") = {} )
           => config[p].Services[LastID].LoadBalancer[1].Servers
                 = <<ZeroStreamServer>>

\* C9 witness: generateConfiguration has returned; the TCP server declared
\* with an address and a port hint kept its address, the UDP server with
\* only a port hint got its address resolved, and the last workload's default
\* TCP service has a server with no address
C9_Witness ==
    /\ Generated
    /\ Processed
    /\ "ts" \in DOMAIN config.tcp.Services
    /\ config.tcp.Services["ts"].LoadBalancer[1].Servers
          = <<[Address |-> "192.0.2.9:1", Port |-> "5432"]>>
    /\ LastDeclared("tcp", "routers") # {}
    /\ LastDeclared("tcp", "services") = {}
    /\ config.tcp.Services[LastID].LoadBalancer[1].Servers[1].Address = ""

\* C9 second case: the address resolved from the port hint
C9_Resolved ==
    /\ Generated
    /\ Processed
    /\ "us" \in LastDeclared("udp", "services")
    /\ config.udp.Services["us"].LoadBalancer[1].Servers
          = <<[Address |-> "10.0.0.5:53", Port |-> "53"]>>

\* C10: when generateConfiguration returns, every entry of the HTTP, TCP and
\* UDP Services maps has a load balancer with at least one server.
C10_ServicesHaveServers ==
    Generated =>
      \A p \in Range(Protos) :
        \A id \in DOMAIN config[p].Services :
            /\ config[p].Services[id].LoadBalancer # Nil
            /\ Len(config[p].Services[id].LoadBalancer[1].Servers) >= 1

\* the Service reference the last processed workload's router id would get
\* under the enumeration order d of getDefinedElements
LinkUnder(d, proto, id) ==
    processService(last.before, last.service, last.node, d)[proto].Routers[id].Service

\* C11: a router discovered for a workload is linked by the labels alone:
\* whichever order the Services discovery list comes in, an unlinked router
\* gets the same first identifier, so the linkage the configuration holds is
\* the linkage every enumeration of the same labels yields.
C11_LinkageDetermined ==
    Processed =>
      \A p \in Range(Protos) :
        \A id \in LastDeclared(p, "routers") \cap DOMAIN config[p].Routers :
          \A d \in DefinedOrders(last.service.Config) :
              config[p].Routers[id].Service = LinkUnder(d, p, id)

\* C11, what does hold: a router whose Service reference the labels set
\* keeps it, and an unlinked router is linked to an identifier of the
\* discovery list, which holds "<name>-<id>" when the labels declare no
\* service (so no discovered router is left unlinked)
C11_LinkKeptOrListed ==
    Processed =>
      \A p \in Range(Protos) :
        \A id \in LastDeclared(p, "routers") \cap DOMAIN config[p].Routers :
          LET decoded == last.decoded[p].Routers[id].Service
              listed  == IF LastDeclared(p, "services") = {} THEN {LastID}
                         ELSE LastDeclared(p, "services")
          IN  /\ decoded # "" => config[p].Routers[id].Service = decoded
              /\ decoded = "" => config[p].Routers[id].Service \in listed

=============================================================================
